---- MODULE Spec2Model ----
(***************************************************************************)
(* Event-yield tabulators of SanityChecks/: EventYields.cpp (per-file      *)
(* rows in the log) and EventYield_v2.cpp (per-sample map and a final      *)
(* summary).  Both walk a directory tree with readdir, test every          *)
(* non-directory entry with                                                *)
(*     filename.rfind(".root") == filename.length() - 5                    *)
(* and hand the matching ones to getEntries.                               *)
(*                                                                         *)
(* Strings are sequences of one-character strings.  A size_t is a tuple of *)
(* four 16-bit limbs, least significant first, so that the arithmetic is   *)
(* the 64-bit unsigned arithmetic of the build.                            *)
(*                                                                         *)
(* A tree holds directories and regular files only, so stat succeeds on    *)
(* every entry; row counts stay far below the range of Long64_t.  A        *)
(* directory is named by a number, a file by its directory and its name.   *)
(***************************************************************************)
EXTENDS Integers, Sequences, FiniteSets, TLC

VARIABLES
    fs,           \* the directory tree the run is started on
    pc,           \* position of main
    stack,        \* activation records of processDirectory, innermost last
    eventYields,  \* std::unordered_map<std::string, Long64_t> of main (v2)
    totalYield,   \* Long64_t totalYield of main (v2)
    iter,         \* keys the range-for of main has not visited yet (v2)
    log,          \* lines written to logFile
    bar,          \* calls of printProgressBar, in order
    handed,       \* files handed to getEntries, in order
    handles,      \* TFile objects allocated with new and not deleted
    filename,     \* name under test (inclusion test on its own)
    tested,       \* whether the inclusion test has been applied to filename
    included,     \* outcome of the inclusion test on filename
    sampleName    \* sampleName derived from filename

vars == <<fs, pc, stack, eventYields, totalYield, iter, log, bar, handed,
          handles, filename, tested, included, sampleName>>

walkVars == <<fs, pc, stack, eventYields, totalYield, iter, log, bar, handed,
              handles>>

nameVars == <<filename, tested, included, sampleName>>

\* ---------------------------------------------------------------- bounds
MaxNameLen == 6

MaxFiles == 3

\* ------------------------------------------------------ size_t arithmetic
LimbBase == 2 ^ 16

SizeT(n) == <<n % LimbBase, (n \div LimbBase) % LimbBase, 0, 0>>

npos == <<LimbBase - 1, LimbBase - 1, LimbBase - 1, LimbBase - 1>>

SubSizeT(a, b) ==
    LET d1 == a[1] - b[1]
        b1 == IF d1 < 0 THEN 1 ELSE 0
        d2 == a[2] - b[2] - b1
        b2 == IF d2 < 0 THEN 1 ELSE 0
        d3 == a[3] - b[3] - b2
        b3 == IF d3 < 0 THEN 1 ELSE 0
        d4 == a[4] - b[4] - b3
    IN  <<(d1 + LimbBase) % LimbBase, (d2 + LimbBase) % LimbBase,
          (d3 + LimbBase) % LimbBase, (d4 + LimbBase) % LimbBase>>

\* min(n, m) for a size_t n and a length m below LimbBase
MinSizeT(n, m) ==
    IF n[2] = 0 /\ n[3] = 0 /\ n[4] = 0 /\ n[1] <= m THEN n[1] ELSE m

\* ----------------------------------------------------------------- strings
DotRoot == <<".", "r", "o", "o", "t">>

ExtLen == 5

SetMax(S) == CHOOSE x \in S : \A y \in S : y <= x

\* std::string::rfind(str): position of the last occurrence, npos if none
rfind(s, pat) ==
    LET found == {p \in 0..(Len(s) - Len(pat)) :
                     SubSeq(s, p + 1, p + Len(pat)) = pat}
    IN  IF found = {} THEN npos ELSE SizeT(SetMax(found))

\* std::string::substr(0, n) with n a size_t
substr0(s, n) == SubSeq(s, 1, MinSizeT(n, Len(s)))

\* filename.rfind(".root") == filename.length() - 5
IsRootFile(name) ==
    rfind(name, DotRoot) = SubSizeT(SizeT(Len(name)), SizeT(ExtLen))

\* the identifier cut one character short of the extension
SampleNameOf_OffByOne(name) ==
    substr0(name, SubSizeT(SizeT(Len(name)), SizeT(ExtLen - 1)))

\* filename.substr(0, filename.length() - 5)
SampleNameOf(name) ==
    substr0(name, SubSizeT(SizeT(Len(name)), SizeT(ExtLen)))

\* ------------------------------------------------------- the file system
Dot == <<".">>

DotDot == <<".", ".">>

DirNames == <<<<"s", "u", "b">>, <<"d", "e", "e", "p">>>>

ParentOf == <<0, 1>>

DirEntry(n, d) ==
    [isDir |-> TRUE, name |-> n, dir |-> d, status |-> "dir",
     nEntries |-> 0, nSelected |-> 0]

File(d, n, st, ne, ns) ==
    [isDir |-> FALSE, name |-> n, dir |-> d, status |-> st,
     nEntries |-> ne, nSelected |-> ns]

SubDirs(d) == {c \in fs.dirs : c # 0 /\ ParentOf[c] = d}

\* what readdir returns for directory d, in no particular order
Entries(d) ==
    {DirEntry(Dot, d), DirEntry(DotDot, IF d = 0 THEN 0 ELSE ParentOf[d])}
    \cup {DirEntry(DirNames[c], c) : c \in SubDirs(d)}
    \cup {f \in fs.files : f.dir = d}

\* opendir(dir_path) returns a non-null DIR*
CanOpenDir(d) == d \notin fs.unreadable

IsPseudo(e) == e.name = Dot \/ e.name = DotDot

\* sum of f[x] over x in S
RECURSIVE SumOver(_, _)
SumOver(S, f) ==
    IF S = {} THEN 0
    ELSE LET x == CHOOSE y \in S : TRUE
         IN  f[x] + SumOver(S \ {x}, f)

RECURSIVE countRootFiles(_)
countRootFiles(d) ==
    IF ~CanOpenDir(d) THEN 0
    ELSE LET Count(e) ==
                 IF e.isDir
                 THEN IF ~IsPseudo(e) THEN countRootFiles(e.dir) ELSE 0
                 ELSE IF IsRootFile(e.name) THEN 1 ELSE 0
         IN  SumOver(Entries(d), [e \in Entries(d) |-> Count(e)])

\* ---------------------------------------------------------- log and output
ErrDirLine(d) == [type |-> "errDir", dir |-> d]

HeaderLine(d) == [type |-> "header", dir |-> d]

ErrOpenLine(e) == [type |-> "errOpen", dir |-> e.dir, name |-> e.name]

ErrTreeLine(e) == [type |-> "errTree", dir |-> e.dir, name |-> e.name]

\* the row prints sample, nEntries and nSelected; dir and name record which
\* file the row was written for
RowLine(sample, e) ==
    [type |-> "row", sample |-> sample, nEntries |-> e.nEntries,
     nSelected |-> e.nSelected, dir |-> e.dir, name |-> e.name]

SummaryHeaderLine == [type |-> "sumHeader"]

SummaryRowLine(k, v) == [type |-> "sumRow", sample |-> k, yield |-> v]

TotalLine(t) == [type |-> "total", yield |-> t]

barWidth == 50

\* int(percentage * 100.0); the float quotient truncates to the integer
\* quotient for every total up to 7
Percent(progress, total) == (progress * 100) \div total

printProgressBar(progress, total) ==
    [progress |-> progress, total |-> total,
     pos |-> (barWidth * progress) \div total,
     percent |-> Percent(progress, total)]

\* ------------------------------------------------------- processDirectory
Frame(d) ==
    [dir |-> d, remaining |-> Entries(d), progress |-> 0,
     total |-> countRootFiles(d)]

\* an unreadable directory also ends the loop of the caller
processDirectory_Abort(d, stk, lg) ==
    IF ~CanOpenDir(d)
    THEN [stack |-> IF stk = <<>> THEN stk
                    ELSE [stk EXCEPT ![Len(stk)] =
                             [@ EXCEPT !.remaining = {}]],
          log |-> Append(lg, ErrDirLine(d))]
    ELSE [stack |-> Append(stk, Frame(d)), log |-> lg]

\* stack and log after a call processDirectory(d)
processDirectory(d, stk, lg) ==
    IF ~CanOpenDir(d)
    THEN [stack |-> stk, log |-> Append(lg, ErrDirLine(d))]
    ELSE [stack |-> Append(stk, Frame(d)), log |-> lg]

Top == stack[Len(stack)]

\* the frame on top after readdir has delivered e
Consume(e, progress) ==
    [stack EXCEPT ![Len(stack)] =
        [@ EXCEPT !.remaining = @ \ {e}, !.progress = progress]]

InLoop == pc = "walk" /\ stack # <<>>

\* eventYields[sampleName] = nSelected
AddYield_Replace(ey, s, n) ==
    [k \in DOMAIN ey \cup {s} |-> IF k = s THEN n ELSE ey[k]]

\* eventYields[sampleName] += nSelected
AddYield(ey, s, n) ==
    IF s \in DOMAIN ey THEN [ey EXCEPT ![s] = @ + n]
    ELSE [k \in DOMAIN ey \cup {s} |-> IF k = s THEN n ELSE ey[k]]

Handle(e, closed) == [dir |-> e.dir, name |-> e.name, closed |-> closed]

\* main: logFile.open fails, return 1
MainLogFails ==
    /\ pc = "main"
    /\ pc' = "failed"
    /\ UNCHANGED <<fs, stack, eventYields, totalYield, iter, log, bar,
                   handed, handles, nameVars>>

\* main: logFile is open; processDirectory(dir_path, eventYields)
MainCall ==
    /\ pc = "main"
    /\ LET r == processDirectory(0, stack, log)
       IN  stack' = r.stack /\ log' = r.log
    /\ pc' = "walk"
    /\ UNCHANGED <<fs, eventYields, totalYield, iter, bar, handed, handles,
                   nameVars>>

\* readdir delivers "." or ".."
SkipPseudo ==
    /\ InLoop
    /\ \E e \in Top.remaining :
        /\ e.isDir /\ IsPseudo(e)
        /\ stack' = Consume(e, Top.progress)
    /\ UNCHANGED <<fs, pc, eventYields, totalYield, iter, log, bar, handed,
                   handles, nameVars>>

\* readdir delivers a sub-directory: header lines, then the recursive call
EnterSubdir ==
    /\ InLoop
    /\ \E e \in Top.remaining :
        /\ e.isDir /\ ~IsPseudo(e)
        /\ LET r == processDirectory(e.dir, Consume(e, Top.progress),
                                     Append(log, HeaderLine(e.dir)))
           IN  stack' = r.stack /\ log' = r.log
    /\ UNCHANGED <<fs, pc, eventYields, totalYield, iter, bar, handed,
                   handles, nameVars>>

\* readdir delivers a non-directory that fails the inclusion test
SkipFile ==
    /\ InLoop
    /\ \E e \in Top.remaining :
        /\ ~e.isDir /\ ~IsRootFile(e.name)
        /\ stack' = Consume(e, Top.progress)
    /\ UNCHANGED <<fs, pc, eventYields, totalYield, iter, log, bar, handed,
                   handles, nameVars>>

\* getEntries looking the sample up in the map before the tree is checked
getEntries_EarlyLookup(e) ==
    LET s == SampleNameOf(e.name)
    IN  /\ handed' = Append(handed, <<e.dir, e.name>>)
        /\ CASE e.status = "zombie" ->
                  /\ log' = Append(log, ErrOpenLine(e))
                  /\ handles' = handles \cup {Handle(e, FALSE)}
                  /\ stack' = Consume(e, Top.progress)
                  /\ UNCHANGED <<eventYields, bar>>
             [] e.status = "notree" ->
                  /\ log' = Append(log, ErrTreeLine(e))
                  /\ handles' = handles \cup {Handle(e, TRUE)}
                  /\ stack' = Consume(e, Top.progress)
                  /\ eventYields' = AddYield(eventYields, s, 0)
                  /\ UNCHANGED bar
             [] OTHER ->
                  /\ eventYields' = AddYield(eventYields, s, e.nSelected)
                  /\ stack' = Consume(e, Top.progress + 1)
                  /\ bar' = Append(bar, printProgressBar(Top.progress + 1,
                                                         Top.total))
                  /\ UNCHANGED <<log, handles>>

\* getEntries of EventYield_v2.cpp on a matching file
getEntries(e) ==
    LET s == SampleNameOf(e.name)
    IN  /\ handed' = Append(handed, <<e.dir, e.name>>)
        /\ CASE e.status = "zombie" ->
                  /\ log' = Append(log, ErrOpenLine(e))
                  /\ handles' = handles \cup {Handle(e, FALSE)}
                  /\ stack' = Consume(e, Top.progress)
                  /\ UNCHANGED <<eventYields, bar>>
             [] e.status = "notree" ->
                  /\ log' = Append(log, ErrTreeLine(e))
                  /\ handles' = handles \cup {Handle(e, TRUE)}
                  /\ stack' = Consume(e, Top.progress)
                  /\ UNCHANGED <<eventYields, bar>>
             [] OTHER ->
                  /\ eventYields' = AddYield(eventYields, s, e.nSelected)
                  /\ stack' = Consume(e, Top.progress + 1)
                  /\ bar' = Append(bar, printProgressBar(Top.progress + 1,
                                                         Top.total))
                  /\ UNCHANGED <<log, handles>>

GetEntries ==
    /\ InLoop
    /\ \E e \in Top.remaining :
        /\ ~e.isDir /\ IsRootFile(e.name)
        /\ getEntries(e)
    /\ UNCHANGED <<fs, pc, totalYield, iter, nameVars>>

\* readdir returns null: closedir, return to the caller
ReturnFromDir ==
    /\ InLoop
    /\ Top.remaining = {}
    /\ stack' = SubSeq(stack, 1, Len(stack) - 1)
    /\ UNCHANGED <<fs, pc, eventYields, totalYield, iter, log, bar, handed,
                   handles, nameVars>>

\* main after processDirectory: summary header, totalYield = 0
SummaryHeader ==
    /\ pc = "walk" /\ stack = <<>>
    /\ log' = Append(log, SummaryHeaderLine)
    /\ totalYield' = 0
    /\ iter' = DOMAIN eventYields
    /\ pc' = "summary"
    /\ UNCHANGED <<fs, stack, eventYields, bar, handed, handles, nameVars>>

\* totalYield = entry.second
AddTotal_Overwrite(t, v) == v

\* totalYield += entry.second
AddTotal(t, v) == t + v

\* one iteration of the range-for over eventYields
SummaryRow ==
    /\ pc = "summary"
    /\ \E k \in iter :
        /\ log' = Append(log, SummaryRowLine(k, eventYields[k]))
        /\ totalYield' = AddTotal(totalYield, eventYields[k])
        /\ iter' = iter \ {k}
    /\ UNCHANGED <<fs, pc, stack, eventYields, bar, handed, handles,
                   nameVars>>

\* after the loop: the "Total yield" line, logFile.close()
SummaryTotal ==
    /\ pc = "summary"
    /\ iter = {}
    /\ log' = Append(log, TotalLine(totalYield))
    /\ pc' = "done"
    /\ UNCHANGED <<fs, stack, eventYields, totalYield, iter, bar, handed,
                   handles, nameVars>>

\* ------------------------------------------------------------ the trees
Name_a_root == <<"a", ".", "r", "o", "o", "t">>

Name_b_root == <<"b", ".", "r", "o", "o", "t">>

Name_data == <<"d", "a", "t", "a">>

Name_a_txt == <<"a", ".", "t", "x", "t">>

Name_sigA == <<"s", "i", "g", "A">>

Name_sigB == <<"s", "i", "g", "B">>

Name_sigA_2 == <<"s", "i", "g", "A", "_", "2">>

FilePool ==
    { File(0, Name_a_root, "ok", 100, 40),
      File(0, Name_b_root, "ok", 50, 50),
      File(0, Name_b_root, "notree", 0, 0),
      File(0, Name_data, "ok", 7, 3),
      File(0, Name_a_txt, "zombie", 0, 0),
      File(1, Name_a_root, "ok", 10, 5),
      File(1, Name_b_root, "zombie", 0, 0),
      File(1, Name_data, "zombie", 0, 0),
      File(2, Name_a_root, "ok", 20, 8),
      File(2, Name_b_root, "notree", 0, 0) }

FileSets ==
    {F \in SUBSET FilePool :
        /\ Cardinality(F) <= MaxFiles
        /\ \A f, g \in F : (f.dir = g.dir /\ f.name = g.name) => f = g}

ScenarioTree ==
    [dirs |-> {0, 1},
     files |-> { File(0, Name_sigA \o DotRoot, "ok", 100, 40),
                 File(0, Name_sigB \o DotRoot, "ok", 50, 50),
                 File(1, Name_sigA_2 \o DotRoot, "ok", 10, 5) },
     unreadable |-> {}]

Trees ==
    {[dirs |-> {0, 1, 2}, files |-> F, unreadable |-> U] :
        F \in FileSets, U \in {{}, {0}, {1}, {2}}}
    \cup {ScenarioTree}

Init ==
    /\ fs \in Trees
    /\ pc = "main"
    /\ stack = <<>>
    /\ eventYields = <<>>
    /\ totalYield = 0
    /\ iter = {}
    /\ log = <<>>
    /\ bar = <<>>
    /\ handed = <<>>
    /\ handles = {}
    /\ filename = <<>>
    /\ tested = FALSE
    /\ included = FALSE
    /\ sampleName = <<>>

Next ==
    \/ MainLogFails
    \/ MainCall
    \/ SkipPseudo
    \/ EnterSubdir
    \/ SkipFile
    \/ GetEntries
    \/ ReturnFromDir
    \/ SummaryHeader
    \/ SummaryRow
    \/ SummaryTotal

Spec == Init /\ [][Next]_vars

\* ------------------------------------------------------- EventYields.cpp
\* getEntries of EventYields.cpp on a matching file
getEntriesV1(e) ==
    LET s == SampleNameOf(e.name)
    IN  /\ handed' = Append(handed, <<e.dir, e.name>>)
        /\ CASE e.status = "zombie" ->
                  /\ log' = Append(log, ErrOpenLine(e))
                  /\ handles' = handles \cup {Handle(e, FALSE)}
                  /\ stack' = Consume(e, Top.progress)
                  /\ UNCHANGED bar
             [] e.status = "notree" ->
                  /\ log' = Append(log, ErrTreeLine(e))
                  /\ handles' = handles \cup {Handle(e, TRUE)}
                  /\ stack' = Consume(e, Top.progress)
                  /\ UNCHANGED bar
             [] OTHER ->
                  /\ log' = Append(log, RowLine(s, e))
                  /\ stack' = Consume(e, Top.progress + 1)
                  /\ bar' = Append(bar, printProgressBar(Top.progress + 1,
                                                         Top.total))
                  /\ UNCHANGED handles

GetEntriesV1 ==
    /\ InLoop
    /\ \E e \in Top.remaining :
        /\ ~e.isDir /\ IsRootFile(e.name)
        /\ getEntriesV1(e)
    /\ UNCHANGED <<fs, pc, eventYields, totalYield, iter, nameVars>>

\* main of EventYields.cpp after processDirectory: logFile.close()
MainCloseV1 ==
    /\ pc = "walk" /\ stack = <<>>
    /\ pc' = "done"
    /\ UNCHANGED <<fs, stack, eventYields, totalYield, iter, log, bar,
                   handed, handles, nameVars>>

NextV1 ==
    \/ MainLogFails
    \/ MainCall
    \/ SkipPseudo
    \/ EnterSubdir
    \/ SkipFile
    \/ GetEntriesV1
    \/ ReturnFromDir
    \/ MainCloseV1

SpecV1 == Init /\ [][NextV1]_vars

\* ------------------------------------------- the inclusion test on its own
Alphabet == {".", "r", "o", "t", "a"}

AllNames == UNION {[1..n -> Alphabet] : n \in 1..MaxNameLen}

EndsWithDotRoot(name) ==
    /\ Len(name) >= 5
    /\ SubSeq(name, Len(name) - 4, Len(name)) = DotRoot

InitNames ==
    /\ filename \in AllNames
    /\ tested = FALSE
    /\ included = FALSE
    /\ sampleName = <<>>
    /\ fs = [dirs |-> {}, files |-> {}, unreadable |-> {}]
    /\ pc = "idle"
    /\ stack = <<>>
    /\ eventYields = <<>>
    /\ totalYield = 0
    /\ iter = {}
    /\ log = <<>>
    /\ bar = <<>>
    /\ handed = <<>>
    /\ handles = {}

\* the else-if of the readdir loop, on one name
TestName ==
    /\ ~tested
    /\ tested' = TRUE
    /\ included' = IsRootFile(filename)
    /\ sampleName' = IF IsRootFile(filename) THEN SampleNameOf(filename)
                     ELSE <<>>
    /\ UNCHANGED <<filename, walkVars>>

NextNames == TestName

SpecNames == InitNames /\ [][NextNames]_vars

\* ------------------------------------------------------------ properties
\* directories the walk opens: readable, and so is every ancestor
RECURSIVE Opened(_)
Opened(d) ==
    /\ d \in fs.dirs
    /\ CanOpenDir(d)
    /\ d = 0 \/ Opened(ParentOf[d])

\* d and the directories below it
RECURSIVE Below(_)
Below(d) == {d} \cup UNION {Below(c) : c \in SubDirs(d)}

FileAt(p) == CHOOSE f \in fs.files : f.dir = p[1] /\ f.name = p[2]

TimesHanded(f) ==
    Cardinality({i \in 1..Len(handed) : handed[i] = <<f.dir, f.name>>})

Returned == pc \in {"walk", "summary", "done"} /\ stack = <<>>

\* the file name with the extension stripped
DerivedId(name) ==
    IF EndsWithDotRoot(name) THEN SubSeq(name, 1, Len(name) - 5) ELSE name

\* files getEntries reads to the end: in an opened directory, passing the
\* test of the readdir loop, openable and holding the tree
ReadFiles ==
    {f \in fs.files : Opened(f.dir) /\ IsRootFile(f.name) /\ f.status = "ok"}

Contributors(s) == {f \in ReadFiles : DerivedId(f.name) = s}

SumSelected(F) == SumOver(F, [f \in F |-> f.nSelected])

LogIndices(t) == {i \in 1..Len(log) : log[i].type = t}

SummaryRows == {<<log[i].sample, log[i].yield>> : i \in LogIndices("sumRow")}

\* C1: with every directory readable, getEntries is invoked exactly once
\* for each file under the root whose name ends with ".root" and for
\* nothing else.
C1_HandedExactlyTheRootFiles ==
    fs.unreadable = {} =>
        /\ \A i \in 1..Len(handed) :
              \E f \in fs.files :
                  /\ handed[i] = <<f.dir, f.name>>
                  /\ EndsWithDotRoot(f.name)
        /\ \A f \in fs.files : TimesHanded(f) <= 1
        /\ Returned =>
              \A f \in fs.files :
                  EndsWithDotRoot(f.name) => TimesHanded(f) = 1

\* C2: after processDirectory returns, eventYields maps every sample
\* identifier to the sum of the selected-row counts of the successfully
\* read files with that identifier, whatever the order of enumeration.
C2_YieldIsSumOfContributions ==
    Returned =>
        eventYields = [s \in {DerivedId(f.name) : f \in ReadFiles} |->
                          SumSelected(Contributors(s))]

C2_Witness ==
    /\ Returned
    /\ \E s \in DOMAIN eventYields : Cardinality(Contributors(s)) >= 2

\* C3 as stated: in the scenario the summary reports sigA with 45, sigB
\* with 50 and a total of 95.
C3_ScenarioAsStated ==
    (pc = "done" /\ fs = ScenarioTree) =>
        /\ <<Name_sigA, 45>> \in SummaryRows
        /\ <<Name_sigB, 50>> \in SummaryRows
        /\ log[Len(log)] = TotalLine(95)

\* C3 amended: in the scenario the summary reports sigA with 40, sigA_2
\* with 5, sigB with 50, and a total of 95.
C3_ScenarioAmended ==
    (pc = "done" /\ fs = ScenarioTree) =>
        /\ SummaryRows = {<<Name_sigA, 40>>, <<Name_sigA_2, 5>>,
                          <<Name_sigB, 50>>}
        /\ log[Len(log)] = TotalLine(95)

C3_Witness == pc = "done" /\ fs = ScenarioTree /\ Len(handed) = 3

\* files the pre-pass counts under the root
Counted == {f \in fs.files : Opened(f.dir) /\ IsRootFile(f.name)}

\* C4: with no eligible file printProgressBar is never called; otherwise,
\* once every eligible file has been processed (none of them failed), the
\* last call was made with progress equal to the total counted under the
\* root (100 %); and no call has progress above total.
C4_ProgressReachesTotal ==
    /\ \A i \in 1..Len(bar) : bar[i].progress <= bar[i].total
    /\ countRootFiles(0) = 0 => bar = <<>>
    /\ (Returned /\ countRootFiles(0) > 0
           /\ \A f \in Counted : f.status = "ok") =>
          /\ bar # <<>>
          /\ bar[Len(bar)].progress = countRootFiles(0)
          /\ bar[Len(bar)].total = countRootFiles(0)
          /\ bar[Len(bar)].percent = 100

\* C5: in the log of EventYields every directory visited, the root
\* included, has a header, and between that header and the next one lie
\* exactly the rows of the files processed directly under the directory,
\* one each.
C5_RowsFollowTheirHeader ==
    pc = "done" =>
        \A d \in {c \in fs.dirs : Opened(c)} :
            \E h \in LogIndices("header") :
                /\ log[h].dir = d
                /\ LET nxt == {j \in LogIndices("header") : j > h}
                       end == IF nxt = {} THEN Len(log) + 1
                              ELSE CHOOSE j \in nxt : \A k \in nxt : j <= k
                       rows == {i \in LogIndices("row") : h < i /\ i < end}
                   IN  /\ \A i \in rows : log[i].dir = d
                       /\ \A f \in {g \in ReadFiles : g.dir = d} :
                             Cardinality({i \in rows :
                                             log[i].name = f.name}) = 1

\* C6: a call of getEntries on a file that cannot be opened or lacks the
\* tree appends one diagnostic to the log, leaves eventYields as it was,
\* and the readdir loop goes on with the remaining entries.
C6_FailedFileIsSkipped ==
    [][(Len(handed') = Len(handed) + 1
        /\ FileAt(handed'[Len(handed')]).status # "ok") =>
          LET f == FileAt(handed'[Len(handed')])
          IN  /\ log' = Append(log, IF f.status = "zombie"
                                    THEN ErrOpenLine(f) ELSE ErrTreeLine(f))
              /\ eventYields' = eventYields
              /\ pc' = "walk"
              /\ Len(stack') = Len(stack)
              /\ stack'[Len(stack')].dir = Top.dir
              /\ stack'[Len(stack')].remaining = Top.remaining \ {f}
       ]_vars

C6_Witness ==
    /\ pc = "done"
    /\ \E i, j \in 1..Len(handed) :
          /\ i < j
          /\ FileAt(handed[i]).status # "ok"
          /\ FileAt(handed[j]).status = "ok"
          /\ FileAt(handed[i]).dir = FileAt(handed[j]).dir

\* nested directories the walk reaches and cannot open
Blocked ==
    {d \in fs.dirs : d # 0 /\ ~CanOpenDir(d) /\ Opened(ParentOf[d])}

\* C7: a nested directory that cannot be opened gets one error line, no
\* file below it is handed to getEntries, and every eligible file of the
\* directories that were opened is handed to getEntries exactly once.
C7_UnreadableSubdirIsSkipped ==
    Returned =>
        /\ \A d \in Blocked :
              /\ Cardinality({i \in LogIndices("errDir") :
                                 log[i].dir = d}) = 1
              /\ \A f \in fs.files : f.dir \in Below(d) => TimesHanded(f) = 0
        /\ \A f \in fs.files :
              (Opened(f.dir) /\ EndsWithDotRoot(f.name)) => TimesHanded(f) = 1

C7_Witness ==
    /\ Returned
    /\ \E d \in Blocked :
          /\ \E f \in fs.files : f.dir \in Below(d) /\ EndsWithDotRoot(f.name)
          /\ \E f \in fs.files :
                f.dir = ParentOf[d] /\ EndsWithDotRoot(f.name)
                /\ TimesHanded(f) = 1
          /\ \E f \in fs.files :
                f.dir # ParentOf[d] /\ Opened(f.dir)
                /\ EndsWithDotRoot(f.name) /\ TimesHanded(f) = 1

\* C8: the "Total yield" line equals the sum of the yields of the summary
\* rows, and the summary has one row for each key of eventYields.
C8_TotalIsSumOfRows ==
    pc = "done" =>
        /\ log[Len(log)] =
              TotalLine(SumOver(LogIndices("sumRow"),
                                [i \in LogIndices("sumRow") |-> log[i].yield]))
        /\ {log[i].sample : i \in LogIndices("sumRow")} = DOMAIN eventYields
        /\ Cardinality(LogIndices("sumRow")) = Cardinality(DOMAIN eventYields)

C8_Witness ==
    /\ pc = "done"
    /\ Cardinality(LogIndices("sumRow")) >= 2
    /\ log[Len(log)].yield > 0

\* C9: whenever getEntries has returned, the TFile it created has been
\* closed and released, so no handle is left.
C9_NoHandleLeft == handles = {}

\* C10: for every name of length >= 1 the inclusion test is true exactly
\* when the name ends with ".root", and then the sample identifier is the
\* name without its last five characters.
C10_TestIsSuffixTest ==
    tested =>
        /\ included <=> EndsWithDotRoot(filename)
        /\ included => sampleName = SubSeq(filename, 1, Len(filename) - 5)

====
